---- MODULE Spec2Model ----
(***************************************************************************)
(* Music Tab Finder: the browser front end (app.js in its two versions,    *)
(* the later one with the GitHub Pages library mode), the service worker   *)
(* (sw.js) and the transcription core that the front end calls over        *)
(* /api/transcribe.                                                        *)
(*                                                                         *)
(* JavaScript runs each handler to its next await without interruption, so *)
(* every action below is one such synchronous stretch of a handler.        *)
(***************************************************************************)
EXTENDS Integers, Sequences, FiniteSets, TLC

(***************************************************************************)
(* Bounds of the model.                                                    *)
(***************************************************************************)
\* transcription requests started during one page life
MaxRequests == 2
\* favourites kept in local storage
MaxFavorites == 2
\* GETs of loadHistory and loadFavorites under way at one time
MaxLoads == 1
\* sheets in data/sheets.json
MaxSheets == 2

(***************************************************************************)
(* Values.                                                                 *)
(***************************************************************************)
\* the three formats the type buttons and the label tables name
Types == {"chord_sheet", "fingerstyle_tab", "piano_sheet"}

\* what selectType is called with: it takes any string
TypeInputs == {"chord_sheet", "piano_sheet", "drum_tab"}

\* contents of the url input: empty, not a YouTube link, a YouTube link
Urls == {"", "https://example.com/v", "https://youtu.be/x"}

\* Date.now(), in milliseconds, as the record operations see it: two fallbacks in
\* the same millisecond get the same id
Clock == {1, 2}

\* Date.now() in the transcription flow, where no handler reads an id
FlowClock == {1}

Reqs == 1..MaxRequests

\* the service worker and the core at rest, while the page is looked at
SwIdle == [state |-> "none", cache |-> <<>>, events |-> <<>>, puts |-> {}]

CoreIdle == <<>>

\* object identities: the parsed response of request r, the demoData of request r,
\* the record parsed out of the n-th opened card, the i-th element of allSheets
Oids == ({"req", "demo"} \X Reqs) \cup ({"view"} \X {1, 2}) \cup ({"sheet"} \X (1..MaxSheets))

NoResult == <<"null", 0>>

VARIABLES
    currentType,    \* let currentType
    currentResult,  \* let currentResult: an object identity or NoResult
    heap,           \* the result objects: <<>> or <<fields>> per identity
    reqs,           \* the startTranscribe invocations and where each stands
    dom,            \* the elements the handlers write
    history,        \* localStorage 'tab-finder-history', parsed
    favorites,      \* localStorage 'tab-finder-favorites', parsed
    qrUrl,          \* the link the QR modal shows
    isGitHubPages,  \* const IS_GITHUB_PAGES
    allSheets,      \* let allSheets: the identities of its elements, in order
    sheetsFetch,    \* fetch('data/sheets.json') of initGitHubPagesMode: where it stands
    hash,           \* window.location.hash
    loads,          \* the GETs of loadHistory and loadFavorites not yet settled
    swState,        \* the service worker's life cycle
    swCache,        \* the cache CACHE_NAME: the response stored per request url
    swEvents,       \* the fetch events the worker has been handed
    swPuts,         \* cache.put calls started and not yet settled
    coreIn,         \* the request the transcription core was given
    coreOut         \* what it returned

libVars == <<isGitHubPages, allSheets, sheetsFetch, hash, loads>>

swVars == <<swState, swCache, swEvents, swPuts>>

coreVars == <<coreIn, coreOut>>

pageVars == <<currentType, currentResult, heap, reqs, dom, history, favorites, qrUrl, libVars>>

vars == <<pageVars, swVars, coreVars>>

Allocated(o) == heap[o] # <<>>

Obj(o) == heap[o][1]

\* An object lives while something refers to it: the variable currentResult, or the
\* array allSheets, or the local data of a startTranscribe waiting in its delay(400).
Reachable(h, cur, rq) ==
    [o \in Oids |-> IF o = cur \/ o[1] = "sheet" \/ (o[1] = "req" /\ rq[o[2]].pc = "delay400")
                    THEN h[o] ELSE <<>>]

(***************************************************************************)
(* Pure parts of the handlers.                                             *)
(***************************************************************************)
\* startTranscribe's two early returns
UrlEmpty(url) == url = ""

UrlIsYoutube(url) == url = "https://youtu.be/x"

\* displayResult's typeLabels[data.output_type] || ''
TypeLabel(t) ==
    CASE t = "chord_sheet" -> "label_chord_sheet"
      [] t = "fingerstyle_tab" -> "label_fingerstyle_tab"
      [] t = "piano_sheet" -> "label_piano_sheet"
      [] OTHER -> ""

\* showDemoResult's demoSheets[currentType] || demoChordSheet
DemoContent(t) ==
    CASE t = "chord_sheet" -> "demoChordSheet"
      [] t = "fingerstyle_tab" -> "demoFingerstyleTab"
      [] t = "piano_sheet" -> "demoPianoSheet"
      [] OTHER -> "demoChordSheet"


\* the melody rows of demoChordSheet, slot by slot (a raised dot is written "."):
\* each row continues the one above it
DemoChordRows ==
    <<<<"1", "3", "5", "6", "1.", "5", "4", "3", "2", "5", "-", "-">>,
      <<"1", "1", "2", "5,", "7,", "2", "6,", "1", "3", "4", "3", "1">>,
      <<"4", "4", "5", "7", "2.", "1", "1", "-", "-", "-", "-", "-">>>>

\* the six string rows of demoFingerstyleTab, e to E, which sound together
DemoTabRows ==
    <<<<"-", "0", "-", "1", "-", "0", "-", "-", "3", "-", "1", "-", "0", "-", "-", "-">>,
      <<"1", "-", "1", "-", "3", "-", "1", "0", "-", "0", "-", "3", "-", "1", "0", "-">>,
      <<"-", "0", "-", "-", "-", "0", "-", "-", "-", "0", "-", "-", "-", "0", "-", "0">>,
      <<"2", "-", "2", "-", "-", "-", "2", "-", "0", "-", "0", "-", "-", "-", "2", "-">>,
      <<"3", "-", "-", "0", "-", "-", "-", "-", "-", "-", "-", "0", "-", "-", "3", "-">>,
      <<"-", "-", "-", "-", "-", "-", "-", "3", "-", "-", "-", "-", "3", "-", "-", "-">>>>

\* the two hand rows of demoPianoSheet, which sound together
DemoPianoRows ==
    <<<<"1", "3", "5", "1.", "6", "5", "3", "1", "4", "3", "2", "5", "1", "-", "-", "-">>,
      <<"1,", "5,", "3,", "1,", "4,", "1,", "5,", "7,", "4,", "1,", "5,", "2,", "1,", "-", "-", "-">>>>

DemoContents == {"demoChordSheet", "demoFingerstyleTab", "demoPianoSheet"}

RECURSIVE SlotsInRows(_)
SlotsInRows(rows) == IF rows = <<>> THEN 0 ELSE Len(Head(rows)) + SlotsInRows(Tail(rows))

\* the number of grid columns of a demo body: the slots of the rows that follow
\* each other in a chord sheet, the slots of one row where the rows sound together
GridColumns(content) ==
    CASE content = "demoChordSheet" -> SlotsInRows(DemoChordRows)
      [] content = "demoFingerstyleTab" -> Len(DemoTabRows[1])
      [] content = "demoPianoSheet" -> Len(DemoPianoRows[1])

\* the demoData literal of showDemoResult
DemoData(now, url, t) ==
    [id |-> "demo-" \o ToString(now), youtube_url |-> url, title |-> "demo_title", output_type |-> t,
     content |-> DemoContent(t), tempo |-> 120, key |-> "C", midi_note |-> "demo_hint"]

\* POST /api/transcribe, as the specification of the core states it: a format outside
\* the three is rejected before any stage runs
BackendAccepts(t) == t \in Types

\* the TranscriptionResult of an accepted request: output_type is the format asked
\* for, midi_note is there only when a rendering anomaly was recorded
BackendResult(r, url, t, anomaly) ==
    [id |-> "rec-" \o ToString(r), youtube_url |-> url, title |-> "Song", output_type |-> t,
     content |-> "sheet_" \o t, tempo |-> 96, key |-> "G",
     midi_note |-> IF anomaly THEN "anomaly_note" ELSE ""]

\* displayResult storing the label it looked up back into the record
DisplayResultWritesLabel(data) == [data EXCEPT !.output_type = TypeLabel(@)]

\* what displayResult leaves in the record it is given: it only reads it
DisplayResultWrites(data) == data

\* displayResult without the else branch that hides the note element
DisplayResultKeepsNote(d, data) ==
    [d EXCEPT !.resultHidden = FALSE,
              !.title = IF data.title = "" THEN "unknown_song" ELSE data.title,
              !.tempo = IF data.tempo = 0 THEN 120 ELSE data.tempo,
              !.key = IF data.key = "" THEN "C" ELSE data.key,
              !.typeLabel = TypeLabel(data.output_type),
              !.content = data.content,
              !.note = IF data.midi_note # "" THEN data.midi_note ELSE @]

\* displayResult.  note is the advisory text that shows: "" while the element is
\* hidden, whatever text an earlier result left in it
DisplayResult(d, data) ==
    [d EXCEPT !.resultHidden = FALSE,
              !.title = IF data.title = "" THEN "unknown_song" ELSE data.title,
              !.tempo = IF data.tempo = 0 THEN 120 ELSE data.tempo,
              !.key = IF data.key = "" THEN "C" ELSE data.key,
              !.typeLabel = TypeLabel(data.output_type),
              !.content = data.content,
              !.note = data.midi_note]

\* showProgress
ShowProgress(d) == [d EXCEPT !.progressHidden = FALSE]

\* a catch block that leaves the progress section as it is
HideProgressForgotten(d) == d

\* hideProgress
HideProgress(d) == [d EXCEPT !.progressHidden = TRUE]

\* showToast with one of the fixed texts: the toast quotes nothing
ShowToast(d, message) == [d EXCEPT !.toast = message, !.toastQuote = <<>>]

\* the finally block of startTranscribe
Finally(d) == [d EXCEPT !.btnDisabled = FALSE, !.loadingHidden = TRUE]

\* if (history.length > 50) history.length = 50
HistoryCap == 50

\* JSON.parse(JSON.stringify(record)): every field of a record is a string or a
\* number, which the round trip returns as they were, in a new object
Stored(record) == record

\* what saveToLocalHistory leaves in the record it is given
SaveToLocalHistoryWrites(record) == record

\* showDemoResult without its call of saveToLocalHistory
SaveToLocalHistorySkipped(h, record) == h

\* saveToLocalHistory without the cut
SaveToLocalHistoryUncut(h, record) == <<Stored(record)>> \o h

\* saveToLocalHistory: newest first, cut to 50
SaveToLocalHistory(h, record) ==
    LET u == <<Stored(record)>> \o h
    IN  IF Len(u) > HistoryCap THEN SubSeq(u, 1, HistoryCap) ELSE u

\* getLocalFavorites, then favorites.find(f => f.id === currentResult.id)
FavoriteExists(favs, cur) == \E i \in 1..Len(favs) : favs[i].id = cur.id

\* favorites.filter(f => f.id !== currentResult.id)
FavoritesWithout(favs, cur) == SelectSeq(favs, LAMBDA f : f.id # cur.id)

\* the list toggleFavorite stores: without the records that have the id of
\* currentResult when one of them has it, else with currentResult put first
ToggledFavorites(favs, cur) ==
    IF FavoriteExists(favs, cur) THEN FavoritesWithout(favs, cur)
    ELSE <<Stored(cur)>> \o favs

\* what toggleFavorite leaves in currentResult
ToggleFavoriteWrites(data) == data

\* what shareSheet leaves in the sheet it shares
ShareSheetWrites(sheet) == sheet

DigitChars == <<"0", "1", "2", "3", "4", "5", "6", "7", "8", "9">>

\* the decimal digits of a natural number, as characters
RECURSIVE Decimal(_)
Decimal(n) == IF n < 10 THEN <<DigitChars[n + 1]>>
              ELSE Decimal(n \div 10) \o <<DigitChars[(n % 10) + 1]>>

IsDigit(c) == \E i \in 1..10 : DigitChars[i] = c

DigitValue(c) == (CHOOSE i \in 1..10 : DigitChars[i] = c) - 1

\* the number the leading digits of chars spell, after the digits that spell acc
RECURSIVE LeadingDigits(_, _)
LeadingDigits(chars, acc) ==
    IF chars = <<>> \/ ~IsDigit(Head(chars)) THEN acc
    ELSE LeadingDigits(Tail(chars), 10 * acc + DigitValue(Head(chars)))

\* the model's strings that stand for text with characters outside ASCII: the demo
\* title and bodies (Chinese text, the note sign), the rendered bodies (the note
\* sign in their header)
NonAscii == {"demo_title", "demoChordSheet", "demoFingerstyleTab", "demoPianoSheet"}
                \cup {"sheet_" \o t : t \in Types}

\* a property of the JSON text: its name, and its value as a sequence of units, each
\* a stretch of characters, percent-escaped or not; a number is its decimal digits
StringField(name, value) ==
    [name |-> name, kind |-> "string",
     text |-> IF value = "" THEN <<>> ELSE <<[esc |-> FALSE, c |-> value]>>]

NumberField(name, n) ==
    [name |-> name, kind |-> "number",
     text |-> IF n = 0 THEN <<>>
              ELSE [i \in 1..Len(Decimal(n)) |-> [esc |-> FALSE, c |-> Decimal(n)[i]]]]

\* JSON.stringify(shareData): a property whose value is undefined is left out
JsonStringify(data) ==
    SelectSeq(<<StringField("title", data.title), StringField("content", data.content),
                NumberField("tempo", data.tempo), StringField("key", data.key),
                StringField("output_type", data.output_type)>>,
              LAMBDA f : f.text # <<>>)

\* encodeURIComponent: characters outside the unreserved ASCII set become escapes
EncodeURIComponent(json) ==
    [i \in 1..Len(json) |->
        [json[i] EXCEPT !.text = [k \in 1..Len(@) |->
            IF @[k].c \in NonAscii THEN [esc |-> TRUE, c |-> @[k].c] ELSE @[k]]]]

\* btoa: throws on a character above U+00FF, else the base64 text
Btoa(text) ==
    IF \E i \in 1..Len(text) : \E k \in 1..Len(text[i].text) :
            ~text[i].text[k].esc /\ text[i].text[k].c \in NonAscii
    THEN [threw |-> TRUE, base64 |-> FALSE, json |-> "", text |-> <<>>]
    ELSE [threw |-> FALSE, base64 |-> TRUE, json |-> "object", text |-> text]

\* payloads nobody encoded: characters that are not base64, base64 of text that is
\* no JSON, base64 of the JSON text null
BadPayloads ==
    {[threw |-> FALSE, base64 |-> FALSE, json |-> "", text |-> <<>>],
     [threw |-> FALSE, base64 |-> TRUE, json |-> "malformed", text |-> <<>>],
     [threw |-> FALSE, base64 |-> TRUE, json |-> "null", text |-> <<>>]}

\* atob: throws on what is not base64
AtobThrows(payload) == ~payload.base64

\* decodeURIComponent: every escape becomes its characters again
DecodeURIComponent(text) ==
    [i \in 1..Len(text) |->
        [text[i] EXCEPT !.text = [k \in 1..Len(@) |-> [esc |-> FALSE, c |-> @[k].c]]]]

\* the value of the named property of the parsed object: "" or 0 when it has none
JsonString(json, name) ==
    IF \E i \in 1..Len(json) : json[i].name = name
    THEN (CHOOSE f \in {json[i] : i \in 1..Len(json)} : f.name = name).text[1].c
    ELSE ""

JsonNumber(json, name) ==
    IF \E i \in 1..Len(json) : json[i].name = name
    THEN LET digits == (CHOOSE f \in {json[i] : i \in 1..Len(json)} : f.name = name).text
         IN  LeadingDigits([k \in 1..Len(digits) |-> digits[k].c], 0)
    ELSE 0

\* JSON.parse of a share payload's text: the object with the properties the text
\* has; id, youtube_url and midi_note it never has
JsonParse(json) ==
    [id |-> "", youtube_url |-> "", title |-> JsonString(json, "title"),
     output_type |-> JsonString(json, "output_type"),
     content |-> JsonString(json, "content"), tempo |-> JsonNumber(json, "tempo"),
     key |-> JsonString(json, "key"), midi_note |-> ""]

\* JSON.parse(decodeURIComponent(atob(payload))): it throws, or yields null, or
\* yields an object
Decode(payload) ==
    IF AtobThrows(payload) \/ payload.json = "malformed"
    THEN [threw |-> TRUE, null |-> FALSE, data |-> <<>>]
    ELSE IF payload.json = "null"
         THEN [threw |-> FALSE, null |-> TRUE, data |-> <<>>]
         ELSE [threw |-> FALSE, null |-> FALSE,
               data |-> <<JsonParse(DecodeURIComponent(payload.text))>>]

\* shareSheet's shareData without the key
ShareDataWithoutKey(sheet) ==
    [title |-> sheet.title, content |-> sheet.content, tempo |-> sheet.tempo,
     key |-> "", output_type |-> sheet.output_type]

\* shareSheet's shareData: the five fields that are shared
ShareData(sheet) ==
    [title |-> sheet.title, content |-> sheet.content, tempo |-> sheet.tempo,
     key |-> sheet.key, output_type |-> sheet.output_type]

\* shareSheet's shareUrl, as its hash: #sheet-{id} on GitHub Pages for a sheet with an
\* id, #share-{the encoded shareData} otherwise
ShareUrl(sheet, gh) ==
    IF gh /\ sheet.id # ""
    THEN [kind |-> "sheet", id |-> sheet.id, payload |-> <<>>]
    ELSE [kind |-> "share", id |-> "",
          payload |-> <<Btoa(EncodeURIComponent(JsonStringify(ShareData(sheet))))>>]

NoUrl == [kind |-> "none", id |-> "", payload |-> <<>>]

\* what data/sheets.json (the backend's history.json, copied by deploy.bat) may hold:
\* records the backend produced, with or without an id
SheetRecords ==
    {BackendResult(1, "https://youtu.be/x", "chord_sheet", FALSE),
     [BackendResult(2, "https://youtu.be/x", "piano_sheet", TRUE) EXCEPT !.id = ""]}

SheetFiles == UNION {[1..n -> SheetRecords] : n \in 0..MaxSheets}

(***************************************************************************)
(* The page after DOMContentLoaded, outside GitHub Pages: nothing selected *)
(* but the default format, no request, the result and progress sections    *)
(* and the advisory note hidden, local storage empty.                      *)
(***************************************************************************)
IdleReq == [pc |-> "idle", url |-> "", submitted |-> "", sent |-> "", anomaly |-> FALSE]

\* an invocation that has returned holds nothing any more
DoneReq == [IdleReq EXCEPT !.pc = "done"]

InitDom ==
    [btnDisabled |-> FALSE, loadingHidden |-> TRUE, progressHidden |-> TRUE,
     resultHidden |-> TRUE, title |-> "", tempo |-> 0, key |-> "", typeLabel |-> "",
     content |-> "", note |-> "", toast |-> "", toastQuote |-> <<>>, favIcon |-> "",
     activeType |-> "chord_sheet", inputCardHidden |-> FALSE, library |-> "none",
     loaded |-> TRUE, historyList |-> <<>>, favoritesList |-> <<>>]

\* the two lists of record cards, by the tab that shows them
ListNames == {"history", "favorites"}

\* no GET of loadHistory or loadFavorites is under way
NoLoads == [list \in ListNames |-> [fetching |-> 0, reading |-> 0]]

\* DOMContentLoaded: on GitHub Pages initGitHubPagesMode hides the input card and
\* starts loading data/sheets.json
InitPage(gh) ==
    /\ currentType = "chord_sheet"
    /\ currentResult = NoResult
    /\ heap = [o \in Oids |-> <<>>]
    /\ reqs = [r \in Reqs |-> IdleReq]
    /\ dom = [InitDom EXCEPT !.inputCardHidden = gh]
    /\ history = <<>>
    /\ favorites = <<>>
    /\ qrUrl = NoUrl
    /\ isGitHubPages = gh
    /\ allSheets = <<>>
    /\ sheetsFetch = IF gh THEN "pending" ELSE "none"
    /\ hash = NoUrl
    /\ loads = NoLoads

Init ==
    /\ InitPage(FALSE)
    /\ swState = SwIdle.state
    /\ swCache = SwIdle.cache
    /\ swEvents = SwIdle.events
    /\ swPuts = SwIdle.puts
    /\ coreIn = CoreIdle
    /\ coreOut = CoreIdle

(***************************************************************************)
(* selectType: any string becomes the current type; the button carrying    *)
(* that data-type, if there is one, becomes the active one.                *)
(***************************************************************************)
SelectType(type) ==
    /\ currentType' = type
    /\ dom' = [dom EXCEPT !.activeType = IF type \in Types THEN type ELSE ""]
    /\ UNCHANGED <<currentResult, heap, reqs, history, favorites, qrUrl, libVars, swVars, coreVars>>

(***************************************************************************)
(* startTranscribe up to its first await.  The Enter key calls it whether  *)
(* or not the button is disabled, so invocations overlap, and the function *)
(* tests nothing but the url, on GitHub Pages as anywhere.  url is the     *)
(* text of the url input at that moment, typed or pasted.  The field       *)
(* submitted records the format selected at that moment; the code keeps no *)
(* copy of it.                                                             *)
(***************************************************************************)
StartTranscribe(r, url) ==
    /\ reqs[r].pc = "idle"
    /\ \A q \in Reqs : q < r => reqs[q].pc # "idle"
    /\ \/ /\ UrlEmpty(url)
          /\ dom' = ShowToast(dom, "enter_url")
          /\ UNCHANGED reqs
       \/ /\ ~UrlEmpty(url) /\ ~UrlIsYoutube(url)
          /\ dom' = ShowToast(dom, "invalid_url")
          /\ UNCHANGED reqs
       \/ /\ UrlIsYoutube(url)
          /\ dom' = ShowProgress([dom EXCEPT !.btnDisabled = TRUE, !.loadingHidden = FALSE,
                                             !.resultHidden = TRUE])
          /\ reqs' = [reqs EXCEPT ![r] = [IdleReq EXCEPT !.pc = "delay500", !.url = url,
                                                         !.submitted = currentType]]
    /\ UNCHANGED <<currentType, currentResult, heap, history, favorites, qrUrl, libVars, swVars, coreVars>>

\* after delay(500): the body of the POST is built, reading currentType now
IssueFetch(r) ==
    /\ reqs[r].pc = "delay500"
    /\ reqs' = [reqs EXCEPT ![r].pc = "fetching", ![r].sent = currentType]
    /\ dom' = ShowProgress(dom)
    /\ UNCHANGED <<currentType, currentResult, heap, history, favorites, qrUrl, libVars, swVars, coreVars>>

(***************************************************************************)
(* The catch block and the finally block after it: hideProgress,           *)
(* showDemoResult (demoData built from currentType as it is now, shown,    *)
(* made the current result, saved to the local history), the toast.       *)
(***************************************************************************)
\* error.message of what the browser throws when a fetch or the reading of a body
\* rejects, as the stretches of text that matter to the catch block
ErrorMessages ==
    {<<"Failed to fetch">>, <<"NetworkError", " when attempting to fetch resource.">>,
     <<"Load failed">>, <<"Unexpected end of JSON input">>}

\* error.detail of the body of a non-OK response: none, or the backend's text
ErrorDetails == {<<>>, <<"transcription_failed">>, <<"Failed to fetch", " audio">>}

\* error.message.includes('Failed to fetch') || error.message.includes('NetworkError')
LooksLikeNetworkError(message) ==
    \E i \in 1..Len(message) : message[i] \in {"Failed to fetch", "NetworkError"}

\* the toast of the catch block: the backend is not running, or the message of the
\* error, quoted, with the remark that the demo is shown
FailureToast(d, message) ==
    IF LooksLikeNetworkError(message)
    THEN ShowToast(d, "backend_down_demo")
    ELSE [ShowToast(d, "error_demo") EXCEPT !.toastQuote = message]

ShowDemoResult(r, message, clock) ==
    \E now \in clock :
        LET o == <<"demo", r>>
            demoData == DemoData(now, reqs[r].url, currentType)
            shown == DisplayResultWrites(demoData)
        IN  /\ dom' = Finally(FailureToast(DisplayResult(HideProgress(dom), demoData), message))
            /\ currentResult' = o
            /\ reqs' = [reqs EXCEPT ![r] = DoneReq]
            /\ heap' = Reachable([heap EXCEPT ![o] = <<SaveToLocalHistoryWrites(shown)>>],
                                 o, reqs')
            /\ history' = SaveToLocalHistory(history, shown)
            /\ UNCHANGED <<currentType, favorites, qrUrl, libVars, swVars, coreVars>>

\* fetch rejects with a TypeError whose message is the browser's
FetchRejected(r, message, clock) ==
    /\ reqs[r].pc = "fetching"
    /\ ShowDemoResult(r, message, clock)

\* fetch resolves; a format the backend does not know never gets an OK response
FetchResolved(r, ok) ==
    /\ reqs[r].pc = "fetching"
    /\ ok => BackendAccepts(reqs[r].sent)
    /\ reqs' = [reqs EXCEPT ![r].pc = IF ok THEN "okjson" ELSE "errjson"]
    /\ dom' = ShowProgress(dom)
    /\ UNCHANGED <<currentType, currentResult, heap, history, favorites, qrUrl, libVars, swVars, coreVars>>

\* !response.ok: the error body is read and new Error(error.detail || ...) is
\* thrown: its message is the backend's detail, or the default text without one
ErrorThrown(r, detail, clock) ==
    /\ reqs[r].pc = "errjson"
    /\ ShowDemoResult(r, IF detail = <<>> THEN <<"transcribe_failed">> ELSE detail, clock)

\* response.json() rejects, of an OK response or of a non-OK one
DataUnreadable(r, message, clock) ==
    /\ reqs[r].pc \in {"okjson", "errjson"}
    /\ ShowDemoResult(r, message, clock)

\* response.json() of an OK response: the result object exists from here on
DataParsed(r, anomaly) ==
    /\ reqs[r].pc = "okjson"
    /\ heap' = [heap EXCEPT ![<<"req", r>>] =
                    <<BackendResult(r, reqs[r].url, reqs[r].sent, anomaly)>>]
    /\ reqs' = [reqs EXCEPT ![r].pc = "delay400", ![r].sent = "", ![r].anomaly = anomaly]
    /\ dom' = ShowProgress(dom)
    /\ UNCHANGED <<currentType, currentResult, history, favorites, qrUrl, libVars, swVars, coreVars>>

\* after delay(400): hideProgress, displayResult(data), currentResult = data, finally
ResultShown(r) ==
    LET o == <<"req", r>>
    IN  /\ reqs[r].pc = "delay400"
        /\ dom' = Finally(ShowToast(DisplayResult(HideProgress(dom), Obj(o)), "done"))
        /\ reqs' = [reqs EXCEPT ![r] = DoneReq]
        /\ heap' = Reachable([heap EXCEPT ![o] = <<DisplayResultWrites(Obj(o))>>], o, reqs')
        /\ currentResult' = o
        /\ UNCHANGED <<currentType, history, favorites, qrUrl, libVars, swVars, coreVars>>

(***************************************************************************)
(* toggleFavorite up to its await: the stored list loses every record with *)
(* the id of currentResult, or gains currentResult at its head.  The       *)
(* request to /api/favorites that follows changes nothing here, whether it *)
(* succeeds or not.                                                        *)
(***************************************************************************)
ToggleFavorite ==
    /\ currentResult # NoResult
    /\ LET cur == Obj(currentResult)
       IN  /\ IF FavoriteExists(favorites, cur)
              THEN /\ favorites' = ToggledFavorites(favorites, cur)
                   /\ dom' = ShowToast([dom EXCEPT !.favIcon = "off"], "favorite_removed")
              ELSE /\ Len(favorites) < MaxFavorites
                   /\ favorites' = ToggledFavorites(favorites, cur)
                   /\ dom' = ShowToast([dom EXCEPT !.favIcon = "on"], "favorite_added")
           /\ heap' = [heap EXCEPT ![currentResult] = <<ToggleFavoriteWrites(cur)>>]
    /\ UNCHANGED <<currentType, currentResult, reqs, history, qrUrl, libVars, swVars, coreVars>>

\* what GET /api/history and GET /api/favorites answer with when the backend is up:
\* a list of records of its history.json
BackendLists ==
    {<<BackendResult(1, "https://youtu.be/x", "chord_sheet", FALSE)>>,
     <<BackendResult(1, "https://youtu.be/x", "chord_sheet", FALSE),
       [BackendResult(2, "https://youtu.be/x", "piano_sheet", TRUE) EXCEPT !.id = ""]>>}

TabNames == ListNames \cup {"transcribe"}

\* renderRecordList: the container is rewritten with a card per record, each card
\* holding its record as text; no record, no card
RenderRecordList(d, list, records) ==
    IF list = "history" THEN [d EXCEPT !.historyList = records]
                        ELSE [d EXCEPT !.favoritesList = records]

\* what loadHistory and loadFavorites read from local storage in their catch block
LocalRecords(list) == IF list = "history" THEN history ELSE favorites

\* what they list on GitHub Pages: allSheets, the local favourites
StaticRecords(list) ==
    IF list = "history" THEN [i \in 1..Len(allSheets) |-> Obj(allSheets[i])]
                        ELSE favorites

(***************************************************************************)
(* switchTab: the history and favourites tabs reload their list.  On       *)
(* GitHub Pages the list is drawn at once; elsewhere loadHistory and       *)
(* loadFavorites issue their GET and the container keeps its cards until   *)
(* the GET has settled.  The active classes of the tabs are not part of    *)
(* dom.                                                                    *)
(***************************************************************************)
SwitchTab(tabName) ==
    /\ IF tabName \in ListNames /\ ~isGitHubPages
       THEN /\ loads["history"].fetching + loads["history"].reading
                + loads["favorites"].fetching + loads["favorites"].reading < MaxLoads
            /\ loads' = [loads EXCEPT ![tabName].fetching = @ + 1]
            /\ dom' = dom
       ELSE /\ dom' = IF tabName \in ListNames
                      THEN RenderRecordList(dom, tabName, StaticRecords(tabName))
                      ELSE dom
            /\ loads' = loads
    /\ UNCHANGED <<currentType, currentResult, heap, reqs, history, favorites, qrUrl,
                   isGitHubPages, allSheets, sheetsFetch, hash, swVars, coreVars>>

\* the GET rejects: the catch block lists what local storage holds now
ListFetchRejected(list) ==
    /\ loads[list].fetching > 0
    /\ loads' = [loads EXCEPT ![list].fetching = @ - 1]
    /\ dom' = RenderRecordList(dom, list, LocalRecords(list))
    /\ UNCHANGED <<currentType, currentResult, heap, reqs, history, favorites, qrUrl,
                   isGitHubPages, allSheets, sheetsFetch, hash, swVars, coreVars>>

\* the GET resolves: an OK response is read, any other lists nothing
ListFetchResolved(list, ok) ==
    /\ loads[list].fetching > 0
    /\ IF ok
       THEN /\ loads' = [loads EXCEPT ![list].fetching = @ - 1, ![list].reading = @ + 1]
            /\ dom' = dom
       ELSE /\ loads' = [loads EXCEPT ![list].fetching = @ - 1]
            /\ dom' = RenderRecordList(dom, list, <<>>)
    /\ UNCHANGED <<currentType, currentResult, heap, reqs, history, favorites, qrUrl,
                   isGitHubPages, allSheets, sheetsFetch, hash, swVars, coreVars>>

\* res.json() resolves with the backend's records
ListRead(list, records) ==
    /\ loads[list].reading > 0
    /\ loads' = [loads EXCEPT ![list].reading = @ - 1]
    /\ dom' = RenderRecordList(dom, list, records)
    /\ UNCHANGED <<currentType, currentResult, heap, reqs, history, favorites, qrUrl,
                   isGitHubPages, allSheets, sheetsFetch, hash, swVars, coreVars>>

\* res.json() rejects: the catch block again
ListUnreadable(list) ==
    /\ loads[list].reading > 0
    /\ loads' = [loads EXCEPT ![list].reading = @ - 1]
    /\ dom' = RenderRecordList(dom, list, LocalRecords(list))
    /\ UNCHANGED <<currentType, currentResult, heap, reqs, history, favorites, qrUrl,
                   isGitHubPages, allSheets, sheetsFetch, hash, swVars, coreVars>>

\* the records of the cards the two containers hold: those of the moment each list
\* was drawn, whatever local storage and the backend hold by now
Cards ==
    {dom.historyList[i] : i \in 1..Len(dom.historyList)}
        \cup {dom.favoritesList[i] : i \in 1..Len(dom.favoritesList)}

(***************************************************************************)
(* viewRecord: the card's onclick parses its record into a new object,     *)
(* which becomes the current result and is displayed; switchTab shows the  *)
(* transcribe tab, which loads nothing.                                    *)
(***************************************************************************)
ViewRecord(record) ==
    LET o == IF currentResult = <<"view", 1>> THEN <<"view", 2>> ELSE <<"view", 1>>
    IN  /\ currentResult' = o
        /\ heap' = Reachable([heap EXCEPT ![o] = <<DisplayResultWrites(record)>>], o, reqs)
        /\ dom' = DisplayResult(dom, record)
        /\ UNCHANGED <<currentType, reqs, history, favorites, qrUrl, libVars, swVars, coreVars>>

\* pasteFromClipboard after its await: the clipboard text is put into the url input
\* (which startTranscribe reads as its url), or it could not be read
PasteFromClipboard(readable) ==
    /\ dom' = ShowToast(dom, IF readable THEN "pasted" ELSE "clipboard_denied")
    /\ UNCHANGED <<currentType, currentResult, heap, reqs, history, favorites, qrUrl,
                   libVars, swVars, coreVars>>

\* copyToClipboard after its await, or in its catch block: the same toast
CopyToClipboard ==
    /\ dom' = ShowToast(dom, "copied")
    /\ UNCHANGED <<currentType, currentResult, heap, reqs, history, favorites, qrUrl,
                   libVars, swVars, coreVars>>

\* copyShareLink, the button of the QR modal, likewise
CopyShareLink ==
    /\ dom' = ShowToast(dom, "link_copied")
    /\ UNCHANGED <<currentType, currentResult, heap, reqs, history, favorites, qrUrl,
                   libVars, swVars, coreVars>>

\* shareCurrentSheet: shareSheet(undefined) shares currentResult
ShareCurrentSheet ==
    /\ currentResult # NoResult
    /\ qrUrl' = ShareUrl(Obj(currentResult), isGitHubPages)
    /\ heap' = [heap EXCEPT ![currentResult] = <<ShareSheetWrites(Obj(currentResult))>>]
    /\ UNCHANGED <<currentType, currentResult, reqs, dom, history, favorites, libVars, swVars, coreVars>>

(***************************************************************************)
(* initGitHubPagesMode after its await: the sheets become allSheets and    *)
(* renderSheetLibrary draws a card per sheet (or the empty library), or     *)
(* the load fails and showEmptyLibrary runs.                               *)
(***************************************************************************)
SheetsLoaded(file) ==
    /\ sheetsFetch = "pending"
    /\ sheetsFetch' = "done"
    /\ allSheets' = [i \in 1..Len(file) |-> <<"sheet", i>>]
    /\ heap' = [o \in Oids |-> IF o[1] = "sheet" /\ o[2] <= Len(file)
                                THEN <<file[o[2]]>> ELSE heap[o]]
    /\ dom' = [dom EXCEPT !.library = IF Len(file) = 0 THEN "empty" ELSE "cards",
                          !.inputCardHidden = TRUE]
    /\ UNCHANGED <<currentType, currentResult, reqs, history, favorites, qrUrl,
                   isGitHubPages, hash, loads, swVars, coreVars>>

SheetsFailed ==
    /\ sheetsFetch = "pending"
    /\ sheetsFetch' = "done"
    /\ dom' = [dom EXCEPT !.library = "empty", !.inputCardHidden = TRUE]
    /\ UNCHANGED <<currentType, currentResult, heap, reqs, history, favorites, qrUrl,
                   isGitHubPages, allSheets, hash, loads, swVars, coreVars>>

\* viewSheetFromLibrary: the card of allSheets[index] is clicked
ViewSheetFromLibrary(index) ==
    /\ index \in 1..Len(allSheets)
    /\ LET o == allSheets[index]
           sheet == Obj(o)
       IN  /\ currentResult' = o
           /\ dom' = DisplayResult(dom, sheet)
           /\ heap' = Reachable([heap EXCEPT ![o] = <<DisplayResultWrites(sheet)>>], o, reqs)
           /\ hash' = IF sheet.id # ""
                      THEN [kind |-> "sheet", id |-> sheet.id, payload |-> <<>>]
                      ELSE hash
    /\ UNCHANGED <<currentType, reqs, history, favorites, qrUrl,
                   isGitHubPages, allSheets, sheetsFetch, loads, swVars, coreVars>>

\* shareSheet(index): the share button of a library card
ShareSheet(index) ==
    /\ index \in 1..Len(allSheets)
    /\ LET o == allSheets[index]
       IN  /\ qrUrl' = ShareUrl(Obj(o), isGitHubPages)
           /\ heap' = [heap EXCEPT ![o] = <<ShareSheetWrites(Obj(o))>>]
    /\ UNCHANGED <<currentType, currentResult, reqs, dom, history, favorites,
                   libVars, swVars, coreVars>>

Next ==
    \/ \E type \in TypeInputs : SelectType(type)
    \/ \E r \in Reqs, url \in Urls : StartTranscribe(r, url)
    \/ \E r \in Reqs : IssueFetch(r)
    \/ \E r \in Reqs, message \in ErrorMessages : FetchRejected(r, message, FlowClock)
    \/ \E r \in Reqs, ok \in BOOLEAN : FetchResolved(r, ok)
    \/ \E r \in Reqs, detail \in ErrorDetails : ErrorThrown(r, detail, FlowClock)
    \/ \E r \in Reqs, message \in ErrorMessages : DataUnreadable(r, message, FlowClock)
    \/ \E r \in Reqs, anomaly \in BOOLEAN : DataParsed(r, anomaly)
    \/ \E r \in Reqs : ResultShown(r)

Spec == Init /\ [][Next]_vars

(***************************************************************************)
(* The page with its record operations, in either mode: results come from  *)
(* the transcription flow or from the library, and are displayed, shared,  *)
(* marked as favourites and opened again from the lists.                   *)
(***************************************************************************)
RecordInit ==
    /\ \E gh \in BOOLEAN : InitPage(gh)
    /\ swState = SwIdle.state
    /\ swCache = SwIdle.cache
    /\ swEvents = SwIdle.events
    /\ swPuts = SwIdle.puts
    /\ coreIn = CoreIdle
    /\ coreOut = CoreIdle

\* the record operations are followed around the results of one transcription;
\* requests that overlap are the matter of Spec
RecordReqs == {1}

RecordNext ==
    \/ \E r \in RecordReqs : StartTranscribe(r, "https://youtu.be/x")
    \/ \E r \in RecordReqs : IssueFetch(r)
    \/ \E r \in RecordReqs, message \in ErrorMessages : FetchRejected(r, message, Clock)
    \/ \E r \in RecordReqs : FetchResolved(r, TRUE)
    \/ \E r \in RecordReqs : DataParsed(r, FALSE)
    \/ \E r \in RecordReqs : ResultShown(r)
    \/ ToggleFavorite
    \/ \E tabName \in TabNames : SwitchTab(tabName)
    \/ \E list \in ListNames : ListFetchRejected(list)
    \/ \E list \in ListNames, ok \in BOOLEAN : ListFetchResolved(list, ok)
    \/ \E list \in ListNames, records \in BackendLists : ListRead(list, records)
    \/ \E list \in ListNames : ListUnreadable(list)
    \/ \E record \in Cards : ViewRecord(record)
    \/ ShareCurrentSheet
    \/ \E file \in SheetFiles : SheetsLoaded(file)
    \/ SheetsFailed
    \/ \E index \in 1..MaxSheets : ViewSheetFromLibrary(index)
    \/ \E index \in 1..MaxSheets : ShareSheet(index)

RecordSpec == RecordInit /\ [][RecordNext]_vars

(***************************************************************************)
(* The page opened from a link.  The script has run and DOMContentLoaded   *)
(* has not fired yet; its handler starts initGitHubPagesMode (which        *)
(* returns at its fetch) and then calls handleHashNavigation, which is     *)
(* also the hashchange listener.                                           *)
(***************************************************************************)
\* links built on another device: the share links of the sheets, links whose
\* payload was damaged, the short link of a sheet and of a sheet that is not there
ForeignLinks ==
    {ShareUrl(sheet, FALSE) : sheet \in SheetRecords}
        \cup {[kind |-> "share", id |-> "", payload |-> <<p>>] : p \in BadPayloads}
        \cup {[kind |-> "sheet", id |-> i, payload |-> <<>>] : i \in {"rec-1", "rec-9"}}

\* allSheets.findIndex(s => s.id === sheetId), counted from 1; 0 when there is none
FindIndex(sheets, sheetId) ==
    LET hits == {i \in 1..Len(sheets) : Obj(sheets[i]).id = sheetId}
    IN  IF hits = {} THEN 0 ELSE CHOOSE i \in hits : \A j \in hits : i <= j

\* handleHashNavigation with window.location.hash being link, d being the document
\* as the handler finds it
HandleHashNavigation(link, d) ==
    LET idx == IF link.kind = "sheet" /\ Len(allSheets) > 0
               THEN FindIndex(allSheets, link.id) ELSE 0
        decoded == IF link.kind = "share" THEN Decode(link.payload[1])
                   ELSE [threw |-> TRUE, null |-> FALSE, data |-> <<>>]
        o == IF currentResult = <<"view", 1>> THEN <<"view", 2>> ELSE <<"view", 1>>
    IN  CASE idx > 0 ->
                /\ currentResult' = allSheets[idx]
                /\ dom' = DisplayResult(d, Obj(allSheets[idx]))
                /\ heap' = Reachable([heap EXCEPT ![allSheets[idx]] =
                                        <<DisplayResultWrites(Obj(allSheets[idx]))>>],
                                     allSheets[idx], reqs)
          [] link.kind = "share" /\ decoded.threw ->
                /\ dom' = ShowToast(d, "bad_share_link")
                /\ UNCHANGED <<currentResult, heap>>
          [] link.kind = "share" /\ decoded.null ->
                /\ currentResult' = NoResult
                /\ heap' = Reachable(heap, NoResult, reqs)
                /\ dom' = ShowToast([d EXCEPT !.resultHidden = FALSE], "bad_share_link")
          [] link.kind = "share" /\ ~decoded.threw /\ ~decoded.null ->
                /\ currentResult' = o
                /\ heap' = Reachable([heap EXCEPT ![o] = <<DisplayResultWrites(decoded.data[1])>>],
                                     o, reqs)
                /\ dom' = DisplayResult(d, decoded.data[1])
          [] OTHER ->
                /\ dom' = d
                /\ UNCHANGED <<currentResult, heap>>

LinkInit ==
    /\ currentType = "chord_sheet"
    /\ currentResult = NoResult
    /\ heap = [o \in Oids |-> <<>>]
    /\ reqs = [r \in Reqs |-> IdleReq]
    /\ dom = [InitDom EXCEPT !.loaded = FALSE]
    /\ history = <<>>
    /\ favorites = <<>>
    /\ qrUrl = NoUrl
    /\ isGitHubPages \in BOOLEAN
    /\ allSheets = <<>>
    /\ sheetsFetch = "none"
    /\ hash \in ForeignLinks \cup {NoUrl}
    /\ loads = NoLoads
    /\ swState = SwIdle.state
    /\ swCache = SwIdle.cache
    /\ swEvents = SwIdle.events
    /\ swPuts = SwIdle.puts
    /\ coreIn = CoreIdle
    /\ coreOut = CoreIdle

\* the DOMContentLoaded handler
DomContentLoaded ==
    /\ ~dom.loaded
    /\ sheetsFetch' = IF isGitHubPages THEN "pending" ELSE "none"
    /\ HandleHashNavigation(hash, [dom EXCEPT !.loaded = TRUE,
                                              !.inputCardHidden = isGitHubPages])
    /\ UNCHANGED <<currentType, reqs, history, favorites, qrUrl, isGitHubPages, allSheets,
                   hash, loads, swVars, coreVars>>

\* a hashchange event: the address was changed to link, which is the link the QR
\* modal shows or one brought from elsewhere, or to no hash at all (Back)
HashChange(link) ==
    /\ dom.loaded
    /\ link # hash
    /\ hash' = link
    /\ HandleHashNavigation(link, dom)
    /\ UNCHANGED <<currentType, reqs, history, favorites, qrUrl, isGitHubPages, allSheets,
                   sheetsFetch, loads, swVars, coreVars>>

LinkNext ==
    \/ DomContentLoaded
    \/ \E link \in ForeignLinks \cup {qrUrl, NoUrl} : HashChange(link)
    \/ CopyToClipboard
    \/ CopyShareLink
    \/ \E file \in SheetFiles : SheetsLoaded(file)
    \/ SheetsFailed
    \/ \E index \in 1..MaxSheets : ViewSheetFromLibrary(index)
    \/ \E index \in 1..MaxSheets : ShareSheet(index)
    \/ ShareCurrentSheet
    \/ ToggleFavorite

LinkSpec == LinkInit /\ [][LinkNext]_vars

\* the browser fires DOMContentLoaded, and the fetch of data/sheets.json settles
SheetsSettle == (\E file \in SheetFiles : SheetsLoaded(file)) \/ SheetsFailed

LinkLiveSpec == LinkSpec /\ WF_vars(DomContentLoaded) /\ WF_vars(SheetsSettle)

(***************************************************************************)
(* The page opened with a local history that earlier visits left behind:   *)
(* every record of it was stored by saveToLocalHistory, the n-th of them at *)
(* time n.  Requests made now fail and are answered by the demo fallback,   *)
(* which saves its record.                                                  *)
(***************************************************************************)
PastRecord(n) == DemoData(n, "https://youtu.be/x", "chord_sheet")

\* the history after n saves of earlier visits, n at most the cap
PastHistory(n) == [i \in 1..n |-> Stored(PastRecord(n + 1 - i))]

\* Date.now() at the r-th request of this visit: later than every earlier save
NewClock(r) == {HistoryCap + r}

HistoryInit ==
    /\ currentType = "chord_sheet"
    /\ currentResult = NoResult
    /\ heap = [o \in Oids |-> <<>>]
    /\ reqs = [r \in Reqs |-> IdleReq]
    /\ dom = InitDom
    /\ history \in {PastHistory(n) : n \in 0..HistoryCap}
    /\ favorites = <<>>
    /\ qrUrl = NoUrl
    /\ isGitHubPages = FALSE
    /\ allSheets = <<>>
    /\ sheetsFetch = "none"
    /\ hash = NoUrl
    /\ loads = NoLoads
    /\ swState = SwIdle.state
    /\ swCache = SwIdle.cache
    /\ swEvents = SwIdle.events
    /\ swPuts = SwIdle.puts
    /\ coreIn = CoreIdle
    /\ coreOut = CoreIdle

HistoryNext ==
    \/ \E r \in Reqs : StartTranscribe(r, "https://youtu.be/x")
    \/ \E r \in Reqs : IssueFetch(r)
    \/ \E r \in Reqs, message \in ErrorMessages : FetchRejected(r, message, NewClock(r))
    \/ \E readable \in BOOLEAN : PasteFromClipboard(readable)

HistorySpec == HistoryInit /\ [][HistoryNext]_vars

(***************************************************************************)
(* The same page under the scheduling the browser guarantees: a timer that *)
(* was set fires, a fetch that was started resolves or rejects, a body     *)
(* that is being read is read or fails.                                    *)
(***************************************************************************)
Settles(r) ==
    \/ IssueFetch(r)
    \/ \E message \in ErrorMessages : FetchRejected(r, message, FlowClock)
    \/ \E ok \in BOOLEAN : FetchResolved(r, ok)
    \/ \E detail \in ErrorDetails : ErrorThrown(r, detail, FlowClock)
    \/ \E message \in ErrorMessages : DataUnreadable(r, message, FlowClock)
    \/ \E anomaly \in BOOLEAN : DataParsed(r, anomaly)
    \/ ResultShown(r)

LiveSpec == Spec /\ \A r \in Reqs : WF_vars(Settles(r))

(***************************************************************************)
(* The service worker (sw.js).  A response is what the server sent: its    *)
(* ok flag and which version of the resource its body is.                  *)
(***************************************************************************)
\* fetch events handled during one life of the worker
MaxEvents == 2
\* versions of a resource the server serves over time
MaxVersions == 2

\* const STATIC_ASSETS
STATIC_ASSETS == {"/", "/index.html", "/styles.css", "/app.js", "/manifest.json"}

\* the urls the page requests: a static asset, the sheet data, an API call
RequestUrls == {"/app.js", "/data/sheets.json", "/api/history"}

CacheKeys == STATIC_ASSETS \cup RequestUrls

Events == 1..MaxEvents

Responses == [ok : BOOLEAN, body : 1..MaxVersions]

NoResponse == [ok |-> FALSE, body |-> 0]

\* event.request.url.includes('/api/')
IsApiRequest(url) == url \in {"/api/history"}

\* caches.match with another request than the event's: the app shell for everything
CachesMatchShell(cache, url) == cache["/index.html"]

\* caches.match(event.request): the stored response, or undefined
CachesMatch(cache, url) == cache[url]

IdleEvent == [pc |-> "idle", url |-> "", net |-> "", answer |-> NoResponse]

\* the worker script has been registered and its install event is being handled
SwInit ==
    /\ swState = "installing"
    /\ swCache = [u \in CacheKeys |-> NoResponse]
    /\ swEvents = [e \in Events |-> IdleEvent]
    /\ swPuts = {}
    /\ \E gh \in {FALSE} : InitPage(gh)
    /\ coreIn = CoreIdle
    /\ coreOut = CoreIdle

\* install: cache.addAll(STATIC_ASSETS) stores all of them or, when one of them
\* cannot be fetched with an ok response, none; then the worker is activated (the
\* activate handler deletes caches of other names, of which the model has none)
InstallDone(version) ==
    /\ swState = "installing"
    /\ swState' = "active"
    /\ swCache' = [u \in CacheKeys |->
                    IF u \in STATIC_ASSETS THEN [ok |-> TRUE, body |-> version]
                    ELSE swCache[u]]
    /\ UNCHANGED <<swEvents, swPuts, pageVars, coreVars>>

InstallFailed ==
    /\ swState = "installing"
    /\ swState' = "redundant"
    /\ UNCHANGED <<swCache, swEvents, swPuts, pageVars, coreVars>>

\* the next page load registers the worker again
RegisterAgain ==
    /\ swState = "redundant"
    /\ swState' = "installing"
    /\ UNCHANGED <<swCache, swEvents, swPuts, pageVars, coreVars>>

\* the fetch handler is entered: fetch(event.request) is started
FetchEvent(e, url) ==
    /\ swState = "active"
    /\ swEvents[e].pc = "idle"
    /\ \A q \in Events : q < e => swEvents[q].pc # "idle"
    /\ swEvents' = [swEvents EXCEPT ![e] = [IdleEvent EXCEPT !.pc = "fetching", !.url = url]]
    /\ UNCHANGED <<swState, swCache, swPuts, pageVars, coreVars>>

\* fetch resolves, with whatever status: the response answers the event and, for a
\* request outside the API, a clone of it is handed to cache.put, not awaited; every
\* event starts a put of its own
NetworkResponds(e, response) ==
    /\ swEvents[e].pc = "fetching"
    /\ swEvents' = [swEvents EXCEPT ![e].pc = "answered", ![e].net = "ok",
                                    ![e].answer = response]
    /\ swPuts' = IF IsApiRequest(swEvents[e].url) THEN swPuts
                 ELSE swPuts \cup {[event |-> e, url |-> swEvents[e].url,
                                    response |-> response]}
    /\ UNCHANGED <<swState, swCache, pageVars, coreVars>>

\* fetch rejects: an API request fails with it, any other goes on to caches.match
NetworkFails(e) ==
    /\ swEvents[e].pc = "fetching"
    /\ swEvents' = [swEvents EXCEPT
                        ![e].pc = IF IsApiRequest(swEvents[e].url) THEN "answered"
                                  ELSE "matching",
                        ![e].net = "failed"]
    /\ UNCHANGED <<swState, swCache, swPuts, pageVars, coreVars>>

\* caches.match resolves: its value answers the event (NoResponse, that is undefined,
\* reaches the page as a network error)
MatchDone(e) ==
    /\ swEvents[e].pc = "matching"
    /\ swEvents' = [swEvents EXCEPT ![e].pc = "answered",
                                    ![e].answer = CachesMatch(swCache, swEvents[e].url)]
    /\ UNCHANGED <<swState, swCache, swPuts, pageVars, coreVars>>

\* a cache.put settles: the response replaces what was stored for the request
PutDone(p) ==
    /\ p \in swPuts
    /\ swPuts' = swPuts \ {p}
    /\ swCache' = [swCache EXCEPT ![p.url] = p.response]
    /\ UNCHANGED <<swState, swEvents, pageVars, coreVars>>

\* a cache.put rejects (the quota is used up) or the worker is stopped before it ran
PutFailed(p) ==
    /\ p \in swPuts
    /\ swPuts' = swPuts \ {p}
    /\ UNCHANGED <<swState, swCache, swEvents, pageVars, coreVars>>

SwNext ==
    \/ \E version \in 1..MaxVersions : InstallDone(version)
    \/ InstallFailed
    \/ RegisterAgain
    \/ \E e \in Events, url \in RequestUrls : FetchEvent(e, url)
    \/ \E e \in Events, response \in Responses : NetworkResponds(e, response)
    \/ \E e \in Events : NetworkFails(e)
    \/ \E e \in Events : MatchDone(e)
    \/ \E p \in swPuts : PutDone(p)
    \/ \E p \in swPuts : PutFailed(p)

SwSpec == SwInit /\ [][SwNext]_vars

\* C7: offline viewing: once a response for a non-API request is in the cache (put
\* there by the install step or after an earlier network fetch) it stays cached, and
\* a request for it whose network fetch fails is answered with the response the
\* cache holds for it.
C7_OfflineAnsweredFromCache ==
    /\ [][\A u \in CacheKeys : swCache[u] # NoResponse => swCache'[u] # NoResponse]_vars
    /\ [][\A e \in Events :
            /\ swEvents[e].net = "failed"
            /\ swEvents[e].pc # "answered"
            /\ swEvents'[e].pc = "answered"
            /\ swCache[swEvents[e].url] # NoResponse
            => swEvents'[e].answer = swCache[swEvents[e].url]]_vars
    /\ [][\A e \in Events :
            /\ swEvents[e].pc = "fetching"
            /\ swEvents'[e].net = "failed"
            /\ ~IsApiRequest(swEvents[e].url)
            => swEvents'[e].pc = "matching"]_vars

\* the sheet data, cached after an earlier fetch, answers a request made offline,
\* and so does a precached static asset
C7_Witness ==
    /\ \E e \in Events :
        /\ swEvents[e].pc = "answered"
        /\ swEvents[e].net = "failed"
        /\ swEvents[e].url = "/data/sheets.json"
        /\ swEvents[e].answer # NoResponse
        /\ swEvents[e].answer = swCache["/data/sheets.json"]

(***************************************************************************)
(* The transcription core behind POST /api/transcribe, as the page calls   *)
(* it: the key offset read from the key select, then the transposer, the   *)
(* degree encoder and the beat grid quantizer.                             *)
(***************************************************************************)
\* largest key offset, in semitones, offered in either direction
MaxOffset == 13
\* longest melody rendered
MaxNotes == 2
\* a note start is given in ticks; this many ticks make one beat
TicksPerBeat == 8
\* latest note start, in ticks
MaxTicks == 20
\* largest subdivisionsPerBeat
MaxSub == 4

Semitones == 12

Pitches == {0, 60, 61, 66, 127}

Modes == {"major", "minor"}

Keys == [tonic : 0..(Semitones - 1), mode : Modes]

Abs(n) == IF n < 0 THEN -n ELSE n

\* the value attribute of the key select's option for offset k
OptionValue(k) == IF k < 0 THEN <<"-">> \o Decimal(-k) ELSE Decimal(k)

\* values the select can hold: its options, no value, and a value that is no number
KeyValues == {OptionValue(k) : k \in (-MaxOffset)..MaxOffset} \cup {<<>>, <<"a">>}

\* parseInt(value): an optional sign and the digits after it; NaN without a digit
ParseInt(chars) ==
    LET signed == chars # <<>> /\ Head(chars) \in {"-", "+"}
        body == IF signed THEN Tail(chars) ELSE chars
        n == LeadingDigits(body, 0)
    IN  IF body = <<>> \/ ~IsDigit(Head(body)) THEN [nan |-> TRUE, n |-> 0]
        ELSE [nan |-> FALSE, n |-> IF signed /\ Head(chars) = "-" THEN -n ELSE n]

\* parseInt(document.getElementById('key-select').value) || 0
KeyOffsetOf(value) == IF ParseInt(value).nan THEN 0 ELSE ParseInt(value).n

\* a remainder that takes the sign of the dividend
TruncatedRemainder(a, b) == IF a < 0 THEN -((-a) % b) ELSE a % b

\* a transposer whose remainder takes the sign of the dividend
TransposeTruncated(key, key_offset) ==
    [tonic |-> TruncatedRemainder(key.tonic + key_offset, Semitones), mode |-> key.mode]

\* Key Resolver & Transposer: the new Key
Transpose(key, key_offset) ==
    [tonic |-> (key.tonic + key_offset) % Semitones, mode |-> key.mode]

\* a pitch shift that keeps the result a MIDI pitch
ShiftPitchClamped(pitch, key_offset) ==
    IF pitch + key_offset > 127 THEN 127
    ELSE IF pitch + key_offset < 0 THEN 0 ELSE pitch + key_offset

\* absolute pitch shift of one Note
ShiftPitch(pitch, key_offset) == pitch + key_offset

\* the mode's scale-step table: major, and natural minor
ScaleSteps(mode) == IF mode = "major" THEN <<0, 2, 4, 5, 7, 9, 11>>
                    ELSE <<0, 2, 3, 5, 7, 8, 10>>

\* Degree Encoder: the digit of the scale step at or below the pitch, with a
\* sharp when the pitch lies strictly between two steps
Degree(pitch, key) ==
    LET steps == ScaleSteps(key.mode)
        semis == (pitch - key.tonic) % Semitones
        digit == CHOOSE d \in 1..7 :
                    /\ steps[d] <= semis
                    /\ \A e \in 1..7 : steps[e] <= semis => e <= d
    IN  [digit |-> digit, accidental |-> IF steps[digit] = semis THEN "" ELSE "#"]

\* the melody line: every pitch shifted, then encoded against the transposed key
RenderDegrees(pitches, key, key_offset) ==
    [i \in 1..Len(pitches) |->
        Degree(ShiftPitch(pitches[i], key_offset), Transpose(key, key_offset))]

\* a quantizer that rounds half to even, as a library round does
QuantizeHalfEven(start, sub) ==
    LET below == (start * sub) \div TicksPerBeat
        rest == (start * sub) % TicksPerBeat
    IN  IF 2 * rest < TicksPerBeat THEN below
        ELSE IF 2 * rest > TicksPerBeat THEN below + 1
        ELSE IF below % 2 = 0 THEN below ELSE below + 1

\* Beat Grid Quantizer: the index of the grid line a start is snapped to; line g
\* lies at g/sub beats, the start at start/TicksPerBeat beats
Quantize(start, sub) == (2 * start * sub + TicksPerBeat) \div (2 * TicksPerBeat)

NoKey == [tonic |-> 0, mode |-> "major"]

NoJob == [kind |-> "none", value |-> <<>>, key |-> NoKey, pitches |-> <<>>,
          roles |-> <<>>, start |-> 0, sub |-> 1]

NoOutput == [done |-> FALSE, key_offset |-> 0, key |-> NoKey, degrees |-> <<>>,
             slot |-> 0, tab |-> <<>>, note |-> ""]

\* Fingerstyle renderer: the open strings of the standard tuning, treble to bass
\* (e, B, G, D, A, E), as MIDI pitches
OpenStrings == <<64, 59, 55, 50, 45, 40>>

Strings == 1..6

\* the two bass strings, A and E
BassStrings == {5, 6}

\* the highest fret of the tab
MaxFret == 20

Roles == {"melody", "bass"}

TabPitches == {28, 40, 45, 64, 84, 85}

\* a renderer that reaches four frets further up the neck
PlayableStringsTo24(pitch) == {s \in Strings : pitch - OpenStrings[s] \in 0..(MaxFret + 4)}

\* the strings that produce the pitch at a fret in [0, 20]
PlayableStrings(pitch) == {s \in Strings : pitch - OpenStrings[s] \in 0..MaxFret}

\* a bass note stays on the bass strings when one of them can play it
AllowedStrings(pitch, role) ==
    IF role = "bass" /\ PlayableStrings(pitch) \cap BassStrings # {}
    THEN PlayableStrings(pitch) \cap BassStrings
    ELSE PlayableStrings(pitch)

\* the position nearest to the previous fret, the lowest string index among equals
SelectString(pitch, role, previous) ==
    CHOOSE s \in AllowedStrings(pitch, role) :
        \A t \in AllowedStrings(pitch, role) :
            LET ds == Abs(pitch - OpenStrings[s] - previous)
                dt == Abs(pitch - OpenStrings[t] - previous)
            IN  ds < dt \/ (ds = dt /\ s <= t)

Dropped == [string |-> 0, fret |-> 0]

\* the tab entries of the notes from the i-th on, previous being the last fret chosen
RECURSIVE TabFrom(_, _, _, _)
TabFrom(pitches, roles, i, previous) ==
    IF i > Len(pitches) THEN <<>>
    ELSE IF AllowedStrings(pitches[i], roles[i]) = {}
         THEN <<Dropped>> \o TabFrom(pitches, roles, i + 1, previous)
         ELSE LET s == SelectString(pitches[i], roles[i], previous)
                  f == pitches[i] - OpenStrings[s]
              IN  <<[string |-> s, fret |-> f]>> \o TabFrom(pitches, roles, i + 1, f)

RenderTab(pitches, roles) == TabFrom(pitches, roles, 1, 0)

\* the advisory note of a tab
TabNote(tab) == IF \E i \in 1..Len(tab) : tab[i] = Dropped
                THEN "pitch out of playable range" ELSE ""

Melodies == UNION {[1..n -> Pitches] : n \in 1..MaxNotes}

TransposeJobs == {[NoJob EXCEPT !.kind = "transpose", !.value = v, !.key = k] :
                    v \in KeyValues, k \in Keys}

RenderJobs == {[NoJob EXCEPT !.kind = "render", !.value = v, !.key = k, !.pitches = m] :
                    v \in KeyValues, k \in Keys, m \in Melodies}

TabJobs == {[NoJob EXCEPT !.kind = "tab", !.pitches = m, !.roles = r] :
                m \in UNION {[1..n -> TabPitches] : n \in {MaxNotes}},
                r \in [1..MaxNotes -> Roles]}

QuantizeJobs == {[NoJob EXCEPT !.kind = "quantize", !.start = t, !.sub = d] :
                    t \in 0..MaxTicks, d \in 1..MaxSub}

CoreInit ==
    /\ coreIn \in TransposeJobs \cup RenderJobs \cup QuantizeJobs \cup TabJobs
    /\ coreOut = NoOutput
    /\ \E gh \in {FALSE} : InitPage(gh)
    /\ swState = SwIdle.state
    /\ swCache = SwIdle.cache
    /\ swEvents = SwIdle.events
    /\ swPuts = SwIdle.puts

Transposed ==
    /\ coreIn.kind = "transpose"
    /\ ~coreOut.done
    /\ coreOut' = [NoOutput EXCEPT !.done = TRUE,
                                   !.key_offset = KeyOffsetOf(coreIn.value),
                                   !.key = Transpose(coreIn.key, KeyOffsetOf(coreIn.value))]
    /\ UNCHANGED <<coreIn, pageVars, swVars>>

Rendered ==
    /\ coreIn.kind = "render"
    /\ ~coreOut.done
    /\ coreOut' = [NoOutput EXCEPT !.done = TRUE,
                                   !.key_offset = KeyOffsetOf(coreIn.value),
                                   !.key = Transpose(coreIn.key, KeyOffsetOf(coreIn.value)),
                                   !.degrees = RenderDegrees(coreIn.pitches, coreIn.key,
                                                             KeyOffsetOf(coreIn.value))]
    /\ UNCHANGED <<coreIn, pageVars, swVars>>

Quantized ==
    /\ coreIn.kind = "quantize"
    /\ ~coreOut.done
    /\ coreOut' = [NoOutput EXCEPT !.done = TRUE,
                                   !.slot = Quantize(coreIn.start, coreIn.sub)]
    /\ UNCHANGED <<coreIn, pageVars, swVars>>

TabRendered ==
    /\ coreIn.kind = "tab"
    /\ ~coreOut.done
    /\ coreOut' = [NoOutput EXCEPT !.done = TRUE,
                                   !.tab = RenderTab(coreIn.pitches, coreIn.roles),
                                   !.note = TabNote(RenderTab(coreIn.pitches, coreIn.roles))]
    /\ UNCHANGED <<coreIn, pageVars, swVars>>

CoreNext ==
    \/ Transposed
    \/ Rendered
    \/ Quantized
    \/ TabRendered

CoreSpec == CoreInit /\ [][CoreNext]_vars

\* C8: the transposed key's tonic is a pitch class in 0..11 that differs from
\* tonic + key_offset by a whole number of octaves, also when the offset is
\* negative, and its mode is the mode of the input key.
C8_TransposedTonic ==
    coreIn.kind = "transpose" /\ coreOut.done =>
        /\ coreOut.key.tonic \in 0..(Semitones - 1)
        /\ \E q \in (-MaxOffset)..MaxOffset :
                coreOut.key.tonic = coreIn.key.tonic + coreOut.key_offset - Semitones * q
        /\ coreOut.key.mode = coreIn.key.mode

\* a negative offset took the tonic below pitch class 0, in a minor key
C8_Witness ==
    /\ coreIn.kind = "transpose"
    /\ coreOut.done
    /\ coreOut.key_offset < 0
    /\ coreIn.key.tonic + coreOut.key_offset < 0
    /\ coreIn.key.mode = "minor"
    /\ coreOut.key.tonic \in 0..(Semitones - 1)

\* C9: the degrees rendered with key offset k are, digit for digit and
\* accidental for accidental, those rendered with key offset k + 12.
C9_OctavePeriodicDegrees ==
    coreIn.kind = "render" /\ coreOut.done =>
        /\ Len(coreOut.degrees) = Len(coreIn.pitches)
        /\ coreOut.degrees =
             RenderDegrees(coreIn.pitches, coreIn.key, coreOut.key_offset + Semitones)
        /\ coreOut.degrees =
             RenderDegrees(coreIn.pitches, coreIn.key, coreOut.key_offset - Semitones)

\* a melody of two different digits, one of them chromatic, rendered with a
\* non-zero offset from a pitch at the top of the range
C9_Witness ==
    /\ coreIn.kind = "render"
    /\ coreOut.done
    /\ coreOut.key_offset # 0
    /\ Len(coreOut.degrees) = 2
    /\ coreIn.pitches[1] = 127
    /\ coreOut.degrees[1].digit # coreOut.degrees[2].digit
    /\ coreOut.degrees[2].accidental = "#"

\* C10: no grid line is nearer to the note start than the line it is snapped to,
\* and of two lines equally near the start the snapped one is the later.
C10_SnapsToNearestTiesLater ==
    coreIn.kind = "quantize" /\ coreOut.done =>
        /\ coreOut.slot >= 0
        /\ \A g \in 0..(MaxTicks * MaxSub) :
            LET toLine == Abs(coreIn.start * coreIn.sub - g * TicksPerBeat)
                toSlot == Abs(coreIn.start * coreIn.sub - coreOut.slot * TicksPerBeat)
            IN  /\ toSlot <= toLine
                /\ toSlot = toLine => g <= coreOut.slot

\* a start exactly halfway between an even and an odd grid line
C10_Witness ==
    /\ coreIn.kind = "quantize"
    /\ coreOut.done
    /\ coreIn.start > 0
    /\ 2 * ((coreIn.start * coreIn.sub) % TicksPerBeat) = TicksPerBeat
    /\ coreOut.slot % 2 = 1
    /\ coreOut.slot * TicksPerBeat > coreIn.start * coreIn.sub

\* C11: in a fingerstyle tab a note is dropped exactly when no string plays its
\* pitch at a fret in 0..20; the advisory note reports a drop; every other note is
\* rendered, at a fret in 0..20 of a string on which that fret sounds the pitch.
C11_UnplayableDroppedOthersRendered ==
    coreIn.kind = "tab" /\ coreOut.done =>
        /\ Len(coreOut.tab) = Len(coreIn.pitches)
        /\ \A i \in 1..Len(coreIn.pitches) :
            LET unplayable == \A s \in Strings, f \in 0..20 :
                                OpenStrings[s] + f # coreIn.pitches[i]
            IN  /\ unplayable <=> coreOut.tab[i] = Dropped
                /\ unplayable => coreOut.note = "pitch out of playable range"
                /\ ~unplayable =>
                    /\ coreOut.tab[i].string \in Strings
                    /\ coreOut.tab[i].fret \in 0..20
                    /\ OpenStrings[coreOut.tab[i].string] + coreOut.tab[i].fret
                         = coreIn.pitches[i]
        /\ (\A i \in 1..Len(coreOut.tab) : coreOut.tab[i] # Dropped) => coreOut.note = ""

\* the bass note at pitch 28 is dropped and reported, the note after it is rendered
C11_Witness ==
    /\ coreIn.kind = "tab"
    /\ coreOut.done
    /\ coreIn.pitches[1] = 28
    /\ coreIn.roles[1] = "bass"
    /\ coreOut.tab[1] = Dropped
    /\ coreOut.tab[2] # Dropped
    /\ coreOut.note = "pitch out of playable range"

(***************************************************************************)
(* Properties of the transcription flow.                                   *)
(***************************************************************************)
Running(r) == reqs[r].pc \notin {"idle", "done"}

\* the step in which invocation r returns
Returns(r) == Running(r) /\ reqs'[r].pc = "done"

\* the step in which invocation r returns through its catch block
Fails(r) == reqs[r].pc \in {"fetching", "errjson", "okjson"} /\ reqs'[r].pc = "done"

\* C1: the output_type of the result produced for a request is the format that was
\* selected when startTranscribe was invoked, on the success path and on the demo
\* path, whatever selectType calls and other requests come in between.
C1_ResultHasSubmittedFormat ==
    [][\A r \in Reqs :
        Returns(r) => heap'[currentResult'][1].output_type = reqs[r].submitted]_vars

\* C2: a format outside the three enumerated ones is rejected: no result with such
\* an output_type is ever produced, displayed or stored.
C2_UnknownFormatRejected ==
    /\ \A o \in Oids : Allocated(o) => Obj(o).output_type \in Types
    /\ \A i \in 1..Len(history) : history[i].output_type \in Types

C5_RunsToCompletion ==
    /\ \A r \in Reqs : Running(r) ~> reqs[r].pc = "done"
    /\ [][\A r \in Reqs :
            Returns(r) => /\ ~dom'.btnDisabled
                          /\ dom'.loadingHidden
                          /\ dom'.progressHidden]_vars

\* one request has returned through the catch block, one with a result
C5_Witness ==
    /\ \E r \in Reqs : reqs[r].pc = "done" /\ currentResult = <<"req", r>>
    /\ Len(history) >= 1
    /\ ~dom.btnDisabled /\ dom.loadingHidden /\ dom.progressHidden

\* C6: a result carries midi_note only when a non-fatal anomaly occurred while it was
\* produced (the backend recorded one, or the request failed and the demo result
\* stands in for it); a result without midi_note has no advisory note showing.
C6_NoteOnlyOnAnomaly ==
    /\ \A r \in Reqs :
        reqs[r].pc = "delay400" =>
            (Obj(<<"req", r>>).midi_note # "" <=> reqs[r].anomaly)
    /\ currentResult # NoResult =>
        LET data == Obj(currentResult)
        IN  /\ data.midi_note = "" => dom.note = ""
            /\ data.midi_note # "" =>
                \/ currentResult[1] = "demo"
                \/ currentResult[1] = "req" /\ data.midi_note = "anomaly_note"
                \/ currentResult[1] \in {"view", "sheet"}

\* a result without anomaly is displayed after a demo result, whose note was showing
C6_Witness ==
    /\ currentResult # NoResult
    /\ currentResult[1] = "req"
    /\ Obj(currentResult).midi_note = ""
    /\ dom.note = ""
    /\ ~dom.resultHidden
    /\ Len(history) >= 1

(***************************************************************************)
(* Properties of the record operations.                                    *)
(***************************************************************************)
\* every record a result object can have been created with
ReceivedRecords ==
    {DemoData(now, "https://youtu.be/x", t) : now \in Clock, t \in TypeInputs}
        \cup {BackendResult(r, "https://youtu.be/x", t, a) :
                r \in Reqs, t \in Types, a \in BOOLEAN}
        \cup SheetRecords

\* C4: a result is immutable once returned: displayResult, toggleFavorite,
\* saveToLocalHistory, shareSheet, viewRecord and viewSheetFromLibrary leave every
\* field of the record they are given as it was, and the record in currentResult
\* has the field values it was received with.
C4_ResultImmutable ==
    /\ [](\A o \in Oids : Allocated(o) => Obj(o) \in ReceivedRecords)
    /\ [][\A o \in Oids : Allocated(o) /\ heap'[o] # <<>> => heap'[o] = heap[o]]_vars

\* the current result has been displayed, marked as favourite and shared
C4_Witness ==
    /\ currentResult # NoResult
    /\ ~dom.resultHidden
    /\ dom.content = Obj(currentResult).content
    /\ FavoriteExists(favorites, Obj(currentResult))
    /\ qrUrl = ShareUrl(Obj(currentResult), isGitHubPages)

\* C12: the bodies produced for one input in different formats have the same
\* number of grid columns: any two demo results stored for the same url, whatever
\* their formats, have bodies with equally many columns.
C12_SameColumnsAcrossFormats ==
    \A i, j \in 1..Len(history) :
        /\ history[i].youtube_url = history[j].youtube_url
        /\ history[i].content \in DemoContents
        /\ history[j].content \in DemoContents
        => GridColumns(history[i].content) = GridColumns(history[j].content)

\* C13: the transcribe button is disabled exactly while some request that passed
\* validation has not yet returned.
C13_ButtonDisabledWhileRunning ==
    dom.btnDisabled <=> \E r \in Reqs : Running(r)

\* C14: once every request has returned, the result the page holds in
\* currentResult and displays, if it is a result of a request, is the result of
\* the request submitted last.
C14_LastSubmittedWins ==
    /\ \A r \in Reqs : ~Running(r)
    /\ currentResult[1] \in {"req", "demo"}
    => /\ \A r \in Reqs : reqs[r].pc = "done" => r <= currentResult[2]
       /\ dom.content = Obj(currentResult).content

\* C15: on GitHub Pages, once data/sheets.json is loaded and the address is
\* #sheet-{id} with the id of one of its sheets, that sheet comes to be the current
\* result and to be displayed.
C15_HashSheetDisplayed ==
    (/\ isGitHubPages
     /\ sheetsFetch = "done"
     /\ hash.kind = "sheet"
     /\ FindIndex(allSheets, hash.id) > 0)
    ~> (/\ FindIndex(allSheets, hash.id) > 0
        /\ currentResult = allSheets[FindIndex(allSheets, hash.id)]
        /\ dom.content = Obj(currentResult).content
        /\ ~dom.resultHidden)

\* the step in which handleHashNavigation runs on a #share- link: the page loads
\* with it, or the address changes to it
HandlesShareLink ==
    /\ hash'.kind = "share"
    /\ dom'.loaded
    /\ hash' # hash \/ ~dom.loaded

\* C16: when handleHashNavigation runs on the #share- link that shareSheet builds
\* for a sheet, the record it makes the current result has the title, content,
\* tempo, key and output_type of that sheet, and that record is displayed; when it
\* runs on a payload that cannot be decoded, the current result and the displayed
\* result stay as they were.
C16_ShareRoundTrip ==
    /\ [][HandlesShareLink =>
            \A sheet \in SheetRecords \cup {Obj(o) : o \in {x \in Oids : Allocated(x)}} :
                hash' = ShareUrl(sheet, isGitHubPages /\ sheet.id # "") \/ hash' = ShareUrl(sheet, FALSE) =>
                    /\ currentResult' # NoResult
                    /\ heap'[currentResult'][1].title = sheet.title
                    /\ heap'[currentResult'][1].content = sheet.content
                    /\ heap'[currentResult'][1].tempo = sheet.tempo
                    /\ heap'[currentResult'][1].key = sheet.key
                    /\ heap'[currentResult'][1].output_type = sheet.output_type
                    /\ dom' = DisplayResult(dom', heap'[currentResult'][1])
                    /\ ~dom'.resultHidden]_vars
    /\ [][HandlesShareLink /\ (~hash'.payload[1].base64 \/ hash'.payload[1].json = "malformed") =>
            /\ currentResult' = currentResult
            /\ currentResult # NoResult => heap'[currentResult] = heap[currentResult]
            /\ dom'.resultHidden = dom.resultHidden
            /\ dom'.title = dom.title
            /\ dom'.content = dom.content
            /\ dom'.tempo = dom.tempo
            /\ dom'.key = dom.key
            /\ dom'.typeLabel = dom.typeLabel
            /\ dom'.note = dom.note]_vars

\* the link the QR modal built in this page for a sheet with text outside ASCII was
\* opened, and the record on display is a new one with the sheet's five fields
C16_Witness ==
    /\ hash.kind = "share"
    /\ hash = qrUrl
    /\ currentResult[1] = "view"
    /\ Obj(currentResult).content \in NonAscii
    /\ Obj(currentResult).tempo = 96
    /\ Obj(currentResult).title = "Song"
    /\ Obj(currentResult).id = ""
    /\ dom.content = Obj(currentResult).content

\* C17: the stored history never has more than 50 records, and a save puts the
\* saved record first and every record that was stored one place further back, in
\* the order they had, the records beyond the 50th place being discarded.
C17_HistoryNewestFirstAtMost50 ==
    /\ [](Len(history) <= 50)
    /\ [][\A r \in Reqs : Fails(r) =>
            /\ history'[1] = heap'[currentResult'][1]
            /\ Len(history') = IF Len(history) < 50 THEN Len(history) + 1 ELSE 50
            /\ \A i \in 2..Len(history') : history'[i] = history[i - 1]]_vars

\* two saves onto a full history: the two new records lead, the two oldest are gone
C17_Witness ==
    /\ Len(history) = 50
    /\ history[1].id \in {"demo-51", "demo-52"}
    /\ history[2].id \in {"demo-51", "demo-52"}
    /\ history[1].id # history[2].id
    /\ history[3].id = "demo-50"
    /\ history[50].id = "demo-3"

\* a stored list as the set of its records
Listed(favs) == {favs[i] : i \in 1..Len(favs)}

\* the step in which toggleFavorite stores the favourites anew
TogglesFavorite == favorites' # favorites

\* C18: a call of toggleFavorite puts the current result into the stored
\* favourites exactly when it was not among them, and a second call with the same
\* current result would store the records that were stored before the first.
C18_ToggleFavoriteInvolution ==
    /\ [][TogglesFavorite =>
            (Stored(Obj(currentResult)) \in Listed(favorites')
                <=> Stored(Obj(currentResult)) \notin Listed(favorites))]_vars
    /\ [](currentResult # NoResult =>
            Listed(ToggledFavorites(ToggledFavorites(favorites, Obj(currentResult)),
                                    Obj(currentResult)))
                = Listed(favorites))

\* C19: a call of toggleFavorite leaves every stored favourite that is another
\* sheet than the current result stored, unchanged.
C19_OtherFavoritesKept ==
    [][TogglesFavorite =>
        \A f \in Listed(favorites) :
            f # Stored(Obj(currentResult)) => f \in Listed(favorites')]_vars

====
